---- MODULE Spec2Model ----
(***************************************************************************)
(* A model of src/index.tsx, the chat client of the AI image editor: the   *)
(* reference store, the prompt resolver, the request assembler, the chat   *)
(* orchestrator, the save-key dialog and the mask editor.                  *)
(*                                                                         *)
(* Strings are sequences of one-character strings (a data URL is a         *)
(* sequence of tokens, its payload the image's pixels), so that trim,      *)
(* toLowerCase, the regular expressions and split(',') are computed and    *)
(* not assumed.  null, undefined and '' are modelled by the empty          *)
(* sequence where the code only tests truthiness; an optional object is a  *)
(* sequence of zero or one records.                                        *)
(***************************************************************************)
EXTENDS Integers, Sequences, FiniteSets, TLC

VARIABLES
    references,        \* Map key -> {data, mimeType}, in insertion order
    stagedImage,       \* <<>> (null) or <<[data, mimeType, maskData, maskPreviewData]>>
    imageToSave,       \* <<>> (null) or <<[data, mimeType]>>
    saveModalSource,   \* "null", "upload" or "generated"
    saveKeyPreview,    \* saveKeyPreview.src
    referenceKeyInput, \* referenceKeyInput.value
    keyErrorMessage,   \* keyErrorMessage.textContent
    promptInput,       \* promptInput.value
    chat,              \* the children of chatHistory, oldest first
    loading,           \* sendBtn/uploadBtn/promptInput .disabled (toggleLoading)
    inflight,          \* the generateContent calls not settled yet: their parts
    readers,           \* FileReaders whose onload has not fired: the file read
    isDrawing,
    originalImage,     \* <<>> (null) or <<src>>: the Image object last created
    originalLoaded,    \* whether that Image object has finished loading
    imageLoads,        \* Image objects whose onload has not fired: their src
    editorOpen,        \* editorModal is not hidden
    currentTool,
    canvasHistory,
    canvas,            \* the pixels of editorCanvas
    path,              \* the points of ctx's current path
    fillStyle,         \* ctx.fillStyle / ctx.strokeStyle
    activeColor,       \* data-color of the palette button that is .selected
    shapeStartX,
    resolveOut,        \* harness: <<>> or <<the result of parsePromptForReferences>>
    partsOut,          \* harness: <<>> or <<[keys, out]>> of a call of buildApiParts
    renameOut,         \* harness: <<>> or <<[oldKey, value, before]>> of a rename
    steps              \* the number of events handled so far

vars == <<references, stagedImage, imageToSave, saveModalSource, saveKeyPreview,
          referenceKeyInput, keyErrorMessage, promptInput, chat, loading,
          inflight, readers, isDrawing, originalImage, originalLoaded,
          imageLoads, editorOpen, currentTool, canvasHistory, canvas, path,
          fillStyle, activeColor, shapeStartX, resolveOut, partsOut, renameOut,
          steps>>

storeVars  == <<references>>
dialogVars == <<imageToSave, saveModalSource, saveKeyPreview, referenceKeyInput,
                keyErrorMessage>>
inputVars  == <<stagedImage, promptInput>>
chatVars   == <<chat, loading, inflight>>
asyncVars  == <<readers>>
editorVars == <<isDrawing, originalImage, originalLoaded, imageLoads, editorOpen,
                currentTool, canvasHistory, canvas, path, fillStyle, activeColor,
                shapeStartX>>
harnessVars == <<resolveOut, partsOut, renameOut>>

(***************************************************************************)
(* Bounds of the model.                                                    *)
(***************************************************************************)
MaxLen == 4        \* longest prompt of the resolver/assembler harness
MaxChat == 5       \* longest chat history
MaxRefs == 2       \* most entries of the reference store
MaxLoads == 2      \* most Image objects of the editor loading at a time
MaxPending == 1    \* most FileReaders pending at once
MaxHist == 2       \* most snapshots of the undo history
MaxSteps == 9      \* most events of a run of the whole application
MaxPicked == 5     \* longest prompt the reference picker still extends
MaxPath == 2       \* most points of a brush stroke of the editor harness

(***************************************************************************)
(* Strings.                                                                *)
(***************************************************************************)
Lower == {"a", "b", "c", "e", "h", "l", "p"}
Upper == {"E", "H", "L", "P"}
\* the characters \w matches, among those the model writes
WordChars == Lower \cup Upper \cup {"1", "_"}
WhiteSpace == {" "}

toLowerChar(c) ==
    CASE c = "E" -> "e" [] c = "H" -> "h" [] c = "L" -> "l" [] c = "P" -> "p"
      [] OTHER -> c

\* toLowerCase left out: the comparison with 'help' is case-sensitive
toLowerCaseOmitted(s) == s

toLowerCase(s) == [i \in 1..Len(s) |-> toLowerChar(s[i])]

RECURSIVE trimStart(_)
trimStart(s) ==
    IF s # <<>> /\ Head(s) \in WhiteSpace THEN trimStart(Tail(s)) ELSE s

RECURSIVE trimEnd(_)
trimEnd(s) ==
    IF s # <<>> /\ s[Len(s)] \in WhiteSpace
    THEN trimEnd(SubSeq(s, 1, Len(s) - 1)) ELSE s

\* trim left out
trimOmitted(s) == s

trim(s) == trimEnd(trimStart(s))

\* the index of the first c in s, 0 when there is none (indexOf, 1-based)
RECURSIVE indexFrom(_, _, _)
indexFrom(s, c, i) ==
    IF i > Len(s) THEN 0 ELSE IF s[i] = c THEN i ELSE indexFrom(s, c, i + 1)

indexOf(s, c) == indexFrom(s, c, 1)

\* s.split(c): the pieces of s between the occurrences of c
RECURSIVE split(_, _)
split(s, c) ==
    LET i == indexOf(s, c) IN
    IF i = 0 THEN <<s>>
    ELSE <<SubSeq(s, 1, i - 1)>> \o split(SubSeq(s, i + 1, Len(s)), c)

\* a[1] of a JavaScript array: undefined (here <<>>) past its end
second(a) == IF Len(a) >= 2 THEN a[2] ELSE <<>>

RECURSIVE join(_, _)
join(a, sep) ==
    IF a = <<>> THEN <<>>
    ELSE IF Len(a) = 1 THEN a[1]
    ELSE a[1] \o sep \o join(Tail(a), sep)

\* `data:${mimeType};base64,${data}`
dataUrl(mimeType, data) == <<"data", ":">> \o mimeType \o <<";", "base64", ",">> \o data

\* url.substring(url.indexOf(':') + 1, url.indexOf(';'))
mimeOfUrl(url) == SubSeq(url, indexOf(url, ":") + 1, indexOf(url, ";") - 1)

(***************************************************************************)
(* The regular expressions.                                                *)
(***************************************************************************)
\* the length of the run of word characters of s that starts at i
RECURSIVE wordRun(_, _)
wordRun(s, i) ==
    IF i <= Len(s) /\ s[i] \in WordChars THEN 1 + wordRun(s, i + 1) ELSE 0

\* [...s.matchAll(REFERENCE_REGEX)].map(match => match[1]), scanning from i
RECURSIVE matchAllFrom(_, _)
matchAllFrom(s, i) ==
    IF i > Len(s) THEN <<>>
    ELSE IF s[i] = "@" /\ wordRun(s, i + 1) > 0
         THEN <<SubSeq(s, i + 1, i + wordRun(s, i + 1))>>
              \o matchAllFrom(s, i + 1 + wordRun(s, i + 1))
         ELSE matchAllFrom(s, i + 1)

REFERENCE_REGEX(s) == matchAllFrom(s, 1)

\* a key test that accepts every non-empty string
KEY_REGEXAnyCharacter(s) == Len(s) >= 1

\* KEY_REGEX.test(s)
KEY_REGEX(s) == Len(s) >= 1 /\ wordRun(s, 1) = Len(s)

(***************************************************************************)
(* The reference store: a JavaScript Map, which keeps insertion order.     *)
(***************************************************************************)
has(refs, key) == \E i \in 1..Len(refs) : refs[i].key = key

\* references.get(key): <<>> (undefined) or <<value>>
get(refs, key) ==
    IF has(refs, key)
    THEN <<refs[CHOOSE i \in 1..Len(refs) : refs[i].key = key].value>>
    ELSE <<>>

set(refs, key, value) ==
    IF has(refs, key)
    THEN [i \in 1..Len(refs) |->
            IF refs[i].key = key THEN [key |-> key, value |-> value] ELSE refs[i]]
    ELSE Append(refs, [key |-> key, value |-> value])

\* a delete that removes nothing
deleteOmitted(refs, key) == refs

delete(refs, key) == SelectSeq(refs, LAMBDA e : e.key # key)

keysOf(refs) == {refs[i].key : i \in 1..Len(refs)}

(***************************************************************************)
(* PromptResolver.                                                         *)
(***************************************************************************)
\* new Set(a): the elements of a in the order of their first occurrence
RECURSIVE newSet(_)
newSet(a) ==
    IF a = <<>> THEN <<>>
    ELSE LET init == newSet(SubSeq(a, 1, Len(a) - 1))
             x == a[Len(a)]
         IN IF \E i \in 1..Len(init) : init[i] = x THEN init ELSE Append(init, x)

\* parsePromptForReferences stopping at the first missing key
parsePromptFirstMissingOnly(prompt, refs) ==
    LET referencedKeys == newSet(REFERENCE_REGEX(prompt))
        missing == SelectSeq(referencedKeys, LAMBDA key : ~has(refs, key))
    IN [referencedKeys |-> referencedKeys,
        missingKeys |-> IF missing = <<>> THEN <<>> ELSE <<missing[1]>>]

\* parsePromptForReferences reporting no key as missing
parsePromptNothingMissing(prompt, refs) ==
    [referencedKeys |-> newSet(REFERENCE_REGEX(prompt)), missingKeys |-> <<>>]

\* parsePromptForReferences listing a missing key once per occurrence
parsePromptMissingRepeated(prompt, refs) ==
    [referencedKeys |-> newSet(REFERENCE_REGEX(prompt)),
     missingKeys |-> SelectSeq(REFERENCE_REGEX(prompt), LAMBDA key : ~has(refs, key))]

parsePromptForReferences(prompt, refs) ==
    LET referencedKeys == newSet(REFERENCE_REGEX(prompt)) IN
    [referencedKeys |-> referencedKeys,
     missingKeys |-> SelectSeq(referencedKeys, LAMBDA key : ~has(refs, key))]

(***************************************************************************)
(* RequestAssembler.                                                       *)
(***************************************************************************)
textPart(text) == [kind |-> "text", text |-> text, data |-> <<>>, mimeType |-> <<>>]

inlinePart(data, mimeType) ==
    [kind |-> "inlineData", text |-> <<>>, data |-> data, mimeType |-> mimeType]

DescribeThisImage == <<"Describe this image.">>

\* imageParts with the mask pushed before the original image
imagePartsMaskFirst(image) ==
    IF image = <<>> THEN <<>>
    ELSE IF image[1].maskData # <<>>
    THEN << inlinePart(second(split(image[1].maskData, ",")), image[1].mimeType),
            inlinePart(second(split(image[1].data, ",")), image[1].mimeType) >>
    ELSE << inlinePart(second(split(image[1].data, ",")), image[1].mimeType) >>

\* imageParts sending an image whose mask is all black as an unmasked image
imagePartsUnlessBlackMask(image) ==
    IF image = <<>> THEN <<>>
    ELSE LET mask == IF image[1].maskData = <<>> THEN <<>>
                     ELSE second(split(image[1].maskData, ","))
             drawn == \E p \in 1..(Len(mask) \div 4) :
                         SubSeq(mask, 4 * p - 3, 4 * p) # <<"0", "0", "0", "255">>
         IN IF drawn
            THEN << inlinePart(second(split(image[1].data, ",")), image[1].mimeType),
                    inlinePart(mask, image[1].mimeType) >>
            ELSE << inlinePart(second(split(image[1].data, ",")), image[1].mimeType) >>

\* the parts pushed for the staged image (lines 182-206)
imageParts(image) ==
    IF image = <<>> THEN <<>>
    ELSE IF image[1].maskData # <<>>
    THEN << inlinePart(second(split(image[1].data, ",")), image[1].mimeType),
            inlinePart(second(split(image[1].maskData, ",")), image[1].mimeType) >>
    ELSE << inlinePart(second(split(image[1].data, ",")), image[1].mimeType) >>

\* the part pushed for one referenced key (lines 209-215)
referencePart(refs, key) ==
    LET ref == get(refs, key)[1] IN
    inlinePart(second(split(ref.data, ",")), ref.mimeType)

\* buildApiParts without the default instruction for a lone image
buildApiPartsWithoutDefault(prompt, image, referencedKeys, refs) ==
    LET first == (IF prompt # <<>> THEN <<textPart(prompt)>> ELSE <<>>)
                 \o imageParts(image)
        firstMissing ==
            IF \E i \in 1..Len(referencedKeys) : ~has(refs, referencedKeys[i])
            THEN CHOOSE i \in 1..Len(referencedKeys) :
                    /\ ~has(refs, referencedKeys[i])
                    /\ \A j \in 1..(i - 1) : has(refs, referencedKeys[j])
            ELSE Len(referencedKeys) + 1
    IN [threw |-> firstMissing <= Len(referencedKeys),
        parts |-> first \o [i \in 1..(firstMissing - 1) |->
                                referencePart(refs, referencedKeys[i])]]

\* buildApiParts: threw when references.get(key)! is undefined and ref.data
\* raises a TypeError; parts is then what had been pushed
buildApiParts(prompt, image, referencedKeys, refs) ==
    LET effectivePrompt ==
            IF prompt # <<>> THEN prompt
            ELSE IF image # <<>> THEN DescribeThisImage ELSE <<>>
        first == (IF effectivePrompt # <<>> THEN <<textPart(effectivePrompt)>> ELSE <<>>)
                 \o imageParts(image)
        firstMissing ==
            IF \E i \in 1..Len(referencedKeys) : ~has(refs, referencedKeys[i])
            THEN CHOOSE i \in 1..Len(referencedKeys) :
                    /\ ~has(refs, referencedKeys[i])
                    /\ \A j \in 1..(i - 1) : has(refs, referencedKeys[j])
            ELSE Len(referencedKeys) + 1
    IN [threw |-> firstMissing <= Len(referencedKeys),
        parts |-> first \o [i \in 1..(firstMissing - 1) |->
                                referencePart(refs, referencedKeys[i])]]

(***************************************************************************)
(* Chat messages.                                                          *)
(***************************************************************************)
TutorialText == <<"<h3>Welcome to the Ultimate AI Image Editor! (tutorial)</h3>">>
HelpText == <<"<h3>Welcome to the Ultimate AI Image Editor!</h3>">>
Help == <<"h", "e", "l", "p">>

\* addMessage: one more child of chatHistory
addMessage(history, sender, text, imageDataUrls) ==
    Append(history, [sender |-> sender, text |-> text, images |-> imageDataUrls])

showHelpMessage(history) == addMessage(history, "ai", HelpText, <<>>)

showInitialTutorial(history) == addMessage(history, "ai", TutorialText, <<>>)

\* toggleLoading leaving the controls enabled
toggleLoadingNeverDisables(isLoading) == FALSE

\* toggleLoading never enabling the controls again
toggleLoadingNeverEnables(isLoading) == TRUE

\* the state of sendBtn.disabled, uploadBtn.disabled and promptInput.disabled
toggleLoading(isLoading) == isLoading

\* processApiResponse: the message it adds, or a throw when the response has
\* no candidate (response.candidates[0] of undefined)
RECURSIVE responseText(_)
responseText(parts) ==
    IF parts = <<>> THEN <<>>
    ELSE (IF Head(parts).text # <<>> THEN Head(parts).text ELSE <<>>)
         \o responseText(Tail(parts))

RECURSIVE responseImageDataUrls(_)
responseImageDataUrls(parts) ==
    IF parts = <<>> THEN <<>>
    ELSE (IF Head(parts).text = <<>> /\ Head(parts).kind = "inlineData"
          THEN <<dataUrl(Head(parts).mimeType, Head(parts).data)>> ELSE <<>>)
         \o responseImageDataUrls(Tail(parts))

processApiResponse(history, response) ==
    LET text == responseText(response.parts)
        urls == responseImageDataUrls(response.parts)
        fallbackText == IF Len(urls) > 0 THEN <<"Here is the generated image.">>
                        ELSE <<"I couldn't generate a response.">>
    IN addMessage(history, "ai", IF text # <<>> THEN text ELSE fallbackText, urls)

\* callGeminiApi assembling the request without the image it was given
callGeminiApiWithoutImage(history, prompt, image, refs) ==
    LET parsed == parsePromptForReferences(prompt, refs)
        built == buildApiParts(prompt, <<>>, parsed.referencedKeys, refs)
    IN IF prompt = <<>> /\ image = <<>>
       THEN [kind |-> "returned", parts |-> <<>>,
             chat |-> addMessage(history, "ai",
                                 <<"Please provide a prompt or an image.">>, <<>>)]
       ELSE IF Len(parsed.missingKeys) > 0
       THEN [kind |-> "returned", parts |-> <<>>,
             chat |-> addMessage(history, "ai",
                        <<"Error: The following reference keys were not found: ">>
                        \o join(parsed.missingKeys, <<", ">>) \o <<".">>, <<>>)]
       ELSE IF built.threw
       THEN [kind |-> "threw", parts |-> <<>>, chat |-> history]
       ELSE IF Len(built.parts) = 0
       THEN [kind |-> "returned", parts |-> <<>>, chat |-> history]
       ELSE [kind |-> "awaiting", parts |-> built.parts, chat |-> history]

\* callGeminiApi up to its await: what it did (kind), the chat after it, and the
\* parts of the call it issued
callGeminiApi(history, prompt, image, refs) ==
    LET parsed == parsePromptForReferences(prompt, refs)
        built == buildApiParts(prompt, image, parsed.referencedKeys, refs)
    IN IF prompt = <<>> /\ image = <<>>
       THEN [kind |-> "returned", parts |-> <<>>,
             chat |-> addMessage(history, "ai",
                                 <<"Please provide a prompt or an image.">>, <<>>)]
       ELSE IF Len(parsed.missingKeys) > 0
       THEN [kind |-> "returned", parts |-> <<>>,
             chat |-> addMessage(history, "ai",
                        <<"Error: The following reference keys were not found: ">>
                        \o join(parsed.missingKeys, <<", ">>) \o <<".">>, <<>>)]
       ELSE IF built.threw
       THEN [kind |-> "threw", parts |-> <<>>, chat |-> history]
       ELSE IF Len(built.parts) = 0
       THEN [kind |-> "returned", parts |-> <<>>, chat |-> history]
       ELSE [kind |-> "awaiting", parts |-> built.parts, chat |-> history]

\* every append to the chat leaves room for the answers still to come
Room(n) == Len(chat) + Len(inflight) + n <= MaxChat

(***************************************************************************)
(* The initial state: initializeApp has run.                               *)
(***************************************************************************)
Black == <<"0", "0", "0", "255">>

Init ==
    /\ references = <<>>
    /\ stagedImage = <<>>
    /\ imageToSave = <<>>
    /\ saveModalSource = "null"
    /\ saveKeyPreview = <<>>
    /\ referenceKeyInput = <<>>
    /\ keyErrorMessage = <<>>
    /\ promptInput = <<>>
    /\ chat = showInitialTutorial(<<>>)
    /\ loading = FALSE
    /\ inflight = <<>>
    /\ readers = <<>>
    /\ isDrawing = FALSE
    /\ originalImage = <<>>
    /\ originalLoaded = FALSE
    /\ imageLoads = <<>>
    /\ editorOpen = FALSE
    /\ currentTool = "brush"
    /\ canvasHistory = <<>>
    /\ canvas = <<>>
    /\ path = <<>>
    /\ fillStyle = Black
    /\ activeColor = <<>>
    /\ shapeStartX = 0
    /\ resolveOut = <<>>
    /\ partsOut = <<>>
    /\ renameOut = <<>>
    /\ steps = 0

(***************************************************************************)
(* ChatOrchestrator.                                                       *)
(***************************************************************************)
\* the user types into the prompt textarea (it is disabled during a call)
TypePrompt(p) ==
    /\ ~loading
    /\ promptInput' = p
    /\ UNCHANGED <<stagedImage, storeVars, dialogVars, chatVars, asyncVars,
                   editorVars, harnessVars>>

\* !prompt && !stagedImage (line 97)
nothingToSend(prompt, image) == prompt = <<>> /\ image = <<>>

\* handleFormSubmit, run by the send button (disabled during a call), with the
\* synchronous part of callGeminiApi and, when that returns without awaiting
\* the model, the finally block
HandleFormSubmit ==
    LET prompt == trim(promptInput)
        userImageData ==
            IF stagedImage = <<>> THEN <<>>
            ELSE IF stagedImage[1].maskPreviewData # <<>>
                 THEN stagedImage[1].maskPreviewData ELSE stagedImage[1].data
        withUser == addMessage(chat, "user", prompt,
                       IF userImageData # <<>> THEN <<userImageData>> ELSE <<>>)
        call == callGeminiApi(withUser, prompt, stagedImage, references)
    IN
    /\ ~loading
    /\ Room(2)
    /\ IF toLowerCase(prompt) = Help
       THEN /\ chat' = showHelpMessage(chat)
            /\ promptInput' = <<>>
            /\ stagedImage' = <<>>
            /\ UNCHANGED <<loading, inflight>>
       ELSE IF nothingToSend(prompt, stagedImage)
       THEN UNCHANGED <<chat, promptInput, stagedImage, loading, inflight>>
       ELSE /\ promptInput' = <<>>
            /\ stagedImage' = <<>>
            /\ IF call.kind = "awaiting"
               THEN /\ chat' = call.chat
                    /\ inflight' = Append(inflight, call.parts)
                    /\ loading' = toggleLoading(TRUE)
               ELSE /\ chat' = IF call.kind = "threw"
                               THEN addMessage(call.chat, "ai",
                                      <<"An error occurred: ", "TypeError">>, <<>>)
                               ELSE call.chat
                    /\ inflight' = inflight
                    /\ loading' = toggleLoading(FALSE)
    /\ UNCHANGED <<storeVars, dialogVars, asyncVars, editorVars, harnessVars>>

\* the i-th outstanding generateContent call settles with outcome o: the rest
\* of callGeminiApi, then the finally block of handleFormSubmit
removeAt(s, i) == SubSeq(s, 1, i - 1) \o SubSeq(s, i + 1, Len(s))

\* the catch block reporting the error and throwing it again, so that the catch
\* block of handleFormSubmit reports it too
catchApiErrorRethrowing(history, o) ==
    addMessage(addMessage(history, "ai",
                          <<"Sorry, an error occurred. ">> \o o.message, <<>>),
               "ai", <<"An error occurred: ">> \o o.message, <<>>)

\* the catch block logging the error without reporting it in the chat
catchApiErrorSilent(history, o) == history

\* the catch block of callGeminiApi (lines 147-151): o is what was thrown, an
\* Error with a message or some other value
catchApiError(history, o) ==
    addMessage(history, "ai",
               <<"Sorry, an error occurred. ">>
               \o (IF o.kind = "error" THEN o.message ELSE <<"Please try again.">>),
               <<>>)

\* what reaches the catch block when the response has no candidate
NoCandidate == [kind |-> "error", parts |-> <<>>,
                message |-> <<"Cannot read properties of undefined">>]

ModelCallSettles(i, o) ==
    /\ i \in 1..Len(inflight)
    /\ inflight' = removeAt(inflight, i)
    /\ chat' = IF o.kind = "response" THEN processApiResponse(chat, o)
               ELSE IF o.kind = "noCandidates" THEN catchApiError(chat, NoCandidate)
               ELSE catchApiError(chat, o)
    /\ loading' = toggleLoading(FALSE)
    /\ UNCHANGED <<inputVars, storeVars, dialogVars, asyncVars, editorVars,
                   harnessVars>>

(***************************************************************************)
(* Staging an image.                                                       *)
(***************************************************************************)
staged(data, mimeType) ==
    <<[data |-> data, mimeType |-> mimeType, maskData |-> <<>>,
       maskPreviewData |-> <<>>]>>

\* the data URLs of the images of the AI messages: each carries the buttons of
\* createAiImageActions
aiImageUrls ==
    UNION { {chat[i].images[j] : j \in 1..Len(chat[i].images)} :
              i \in {m \in 1..Len(chat) : chat[m].sender = "ai"} }

\* handleFileSelect: the upload button (disabled during a call) opened the
\* picker and a file was chosen; a FileReader starts reading it
HandleFileSelect(file) ==
    /\ ~loading
    /\ Len(readers) < MaxPending
    /\ readers' = Append(readers, file)
    /\ UNCHANGED <<inputVars, storeVars, dialogVars, chatVars, editorVars,
                   harnessVars>>

\* reader.onload of the i-th pending FileReader (lines 360-366)
ReaderOnload(i) ==
    /\ i \in 1..Len(readers)
    /\ LET file == readers[i]
           data == dataUrl(file.type, file.bytes)
       IN /\ stagedImage' = staged(data, file.type)
          /\ imageToSave' = <<[data |-> data, mimeType |-> file.type]>>
          /\ saveModalSource' = "upload"
          /\ saveKeyPreview' = data
          /\ referenceKeyInput' = <<>>
          /\ keyErrorMessage' = <<>>
    /\ readers' = removeAt(readers, i)
    /\ UNCHANGED <<promptInput, storeVars, chatVars, editorVars, harnessVars>>

\* a stageGeneratedImageForEditing that leaves nothing staged
stageGeneratedImageDropped(url) == <<>>

\* stageGeneratedImageForEditing(dataUrl)
stageGeneratedImageForEditing(url) == staged(url, mimeOfUrl(url))

\* the edit button of an AI image
EditGeneratedImage(url) ==
    /\ url \in aiImageUrls
    /\ stagedImage' = stageGeneratedImageForEditing(url)
    /\ UNCHANGED <<promptInput, storeVars, dialogVars, chatVars, asyncVars,
                   editorVars, harnessVars>>

\* removeImageBtn (shown with the preview of the staged image): resetInputArea
RemoveImage ==
    /\ stagedImage # <<>>
    /\ promptInput' = <<>>
    /\ stagedImage' = <<>>
    /\ UNCHANGED <<storeVars, dialogVars, chatVars, asyncVars, editorVars,
                   harnessVars>>

\* insertReferenceAtCursor(key) with the selection start..end (0-based), from
\* the reference picker
InsertReferenceAtCursor(key, start, end) ==
    /\ has(references, key)
    /\ start <= end /\ end <= Len(promptInput)
    /\ Len(promptInput) + Len(key) + 2 - (end - start) <= MaxPicked
    /\ promptInput' = SubSeq(promptInput, 1, start) \o <<"@">> \o key \o <<" ">>
                      \o SubSeq(promptInput, end + 1, Len(promptInput))
    /\ UNCHANGED <<stagedImage, storeVars, dialogVars, chatVars, asyncVars,
                   editorVars, harnessVars>>

(***************************************************************************)
(* The save-key dialog.                                                    *)
(***************************************************************************)
\* the save button of an AI image: openSaveKeyModal(url, mimeType, 'generated')
SaveGeneratedImage(url) ==
    /\ url \in aiImageUrls
    /\ imageToSave' = <<[data |-> url, mimeType |-> mimeOfUrl(url)]>>
    /\ saveModalSource' = "generated"
    /\ saveKeyPreview' = url
    /\ referenceKeyInput' = <<>>
    /\ keyErrorMessage' = <<>>
    /\ UNCHANGED <<inputVars, storeVars, chatVars, asyncVars, editorVars,
                   harnessVars>>

\* the user types into the key input of the open dialog
TypeKey(k) ==
    /\ imageToSave # <<>>
    /\ referenceKeyInput' = k
    /\ UNCHANGED <<imageToSave, saveModalSource, saveKeyPreview, keyErrorMessage,
                   inputVars, storeVars, chatVars, asyncVars, editorVars,
                   harnessVars>>

\* the entry handleSaveKey stores (line 499)
savedValue(image) == [data |-> image.data, mimeType |-> image.mimeType]

\* handleSaveKey, from the save button or Enter in the key input of the dialog
HandleSaveKey ==
    LET key == trim(referenceKeyInput) IN
    /\ imageToSave # <<>>
    /\ (KEY_REGEX(key) /\ ~has(references, key))
          => (Room(1) /\ Len(references) < MaxRefs)
    /\ IF key = <<>>
       THEN IF saveModalSource = "upload"
            THEN /\ imageToSave' = <<>>
                 /\ saveModalSource' = "null"
                 /\ keyErrorMessage' = <<>>
                 /\ UNCHANGED <<references, chat>>
            ELSE /\ keyErrorMessage' = <<"A key is required to save a reference.">>
                 /\ UNCHANGED <<references, chat, imageToSave, saveModalSource>>
       ELSE IF ~KEY_REGEX(key)
       THEN /\ keyErrorMessage' =
                  <<"Invalid key. Use only letters, numbers, and underscores.">>
            /\ UNCHANGED <<references, chat, imageToSave, saveModalSource>>
       ELSE IF has(references, key)
       THEN /\ keyErrorMessage' =
                  <<"This key is already in use. Please choose another.">>
            /\ UNCHANGED <<references, chat, imageToSave, saveModalSource>>
       ELSE /\ references' = set(references, key, savedValue(imageToSave[1]))
            /\ chat' = addMessage(chat, "ai",
                          <<"Image saved as reference with key: \"<strong>">>
                          \o key \o <<"</strong>\".">>, <<>>)
            /\ keyErrorMessage' = <<>>
            /\ imageToSave' = <<>>
            /\ saveModalSource' = "null"
    /\ UNCHANGED <<saveKeyPreview, referenceKeyInput, inputVars, loading, inflight,
                   asyncVars, editorVars, harnessVars>>

\* handleCancelSave: the close button of the dialog, or a click on its backdrop
HandleCancelSave ==
    /\ imageToSave # <<>>
    /\ IF saveModalSource = "upload"
       THEN promptInput' = <<>> /\ stagedImage' = <<>>
       ELSE UNCHANGED <<promptInput, stagedImage>>
    /\ imageToSave' = <<>>
    /\ saveModalSource' = "null"
    /\ UNCHANGED <<saveKeyPreview, referenceKeyInput, keyErrorMessage, storeVars,
                   chatVars, asyncVars, editorVars, harnessVars>>

\* useOnceBtn (hidden unless the dialog was opened by an upload): closeSaveKeyModal
UseOnce ==
    /\ imageToSave # <<>>
    /\ saveModalSource = "upload"
    /\ imageToSave' = <<>>
    /\ saveModalSource' = "null"
    /\ UNCHANGED <<saveKeyPreview, referenceKeyInput, keyErrorMessage, inputVars,
                   storeVars, chatVars, asyncVars, editorVars, harnessVars>>

(***************************************************************************)
(* The references dialog.  Its rows are rendered from the store and are    *)
(* rendered again after every delete and rename; a save only adds keys, so *)
(* every row's key is in the store.                                        *)
(***************************************************************************)
\* the use button of the row of key
UseReference(key) ==
    /\ has(references, key)
    /\ stagedImage' = stageGeneratedImageForEditing(get(references, key)[1].data)
    /\ UNCHANGED <<promptInput, storeVars, dialogVars, chatVars, asyncVars,
                   editorVars, harnessVars>>

\* the delete button of the row of key, confirmed
DeleteReference(key) ==
    /\ has(references, key)
    /\ references' = delete(references, key)
    /\ UNCHANGED <<inputVars, dialogVars, chatVars, asyncVars, editorVars,
                   harnessVars>>

\* what references.get(oldKey)! yields for a key that is not in the store:
\* undefined, a value with neither data nor mime type
Undefined == [data |-> <<>>, mimeType |-> <<>>]

\* handleRename without the test of the new key's format
handleRenameUnvalidated(refs, oldKey, value) ==
    LET newKey == trim(value) IN
    IF newKey = oldKey \/ has(refs, newKey) THEN refs
    ELSE set(delete(refs, oldKey), newKey, get(refs, oldKey)[1])

\* handleRename without the test for a key that is already in use
handleRenameOverwriting(refs, oldKey, value) ==
    LET newKey == trim(value) IN
    IF newKey = oldKey \/ ~KEY_REGEX(newKey) \/ ~has(refs, oldKey) THEN refs
    ELSE set(delete(refs, oldKey), newKey, get(refs, oldKey)[1])

\* the store handleRename leaves (lines 567-584), the row's input holding value
handleRename(refs, oldKey, value) ==
    LET newKey == trim(value) IN
    IF newKey = oldKey THEN refs
    ELSE IF ~KEY_REGEX(newKey) \/ (has(refs, newKey) /\ newKey # oldKey) THEN refs
    ELSE set(delete(refs, oldKey), newKey,
             IF has(refs, oldKey) THEN get(refs, oldKey)[1] ELSE Undefined)

\* handleRename of the row of oldKey, its input holding value
HandleRename(oldKey, value) ==
    /\ has(references, oldKey)
    /\ references' = handleRename(references, oldKey, value)
    /\ UNCHANGED <<inputVars, dialogVars, chatVars, asyncVars, editorVars,
                   harnessVars>>

(***************************************************************************)
(* The mask editor.  The canvas is one row of pixels; its ImageData is the *)
(* flat sequence of its channels, four to a pixel.  Coordinates are the    *)
(* pixel boundaries 0..width; pixel i lies between i-1 and i.              *)
(***************************************************************************)
Transparent == <<"0", "0", "0", "0">>
DefaultColor == <<"229", "83", "53", "255">>   \* '#E53935'

width(data) == Len(data) \div 4

\* data with the pixels of the set px set to color
paint(data, px, color) ==
    [n \in 1..Len(data) |->
        IF ((n - 1) \div 4) + 1 \in px THEN color[((n - 1) % 4) + 1] ELSE data[n]]

min2(a, b) == IF a <= b THEN a ELSE b
max2(a, b) == IF a >= b THEN a ELSE b

\* the pixels a stroke of the path covers (line width 1, round caps)
strokePixels(data, points) ==
    IF Len(points) < 2 THEN {}
    ELSE LET lo == CHOOSE a \in {points[i] : i \in 1..Len(points)} :
                       \A j \in 1..Len(points) : a <= points[j]
             hi == CHOOSE a \in {points[i] : i \in 1..Len(points)} :
                       \A j \in 1..Len(points) : a >= points[j]
         IN {i \in 1..width(data) : i >= lo /\ i <= hi + 1}

\* drawShape(x1, y1, x2, y2) on data, filling with style
drawShape(data, tool, x1, x2, style) ==
    LET radius == IF x2 >= x1 THEN x2 - x1 ELSE x1 - x2
        px == IF tool = "rectangle"
              THEN {i \in 1..width(data) : i - 1 >= min2(x1, x2) /\ i <= max2(x1, x2)}
              ELSE IF tool = "circle"
              THEN {i \in 1..width(data) : i - 1 >= x1 - radius /\ i <= x1 + radius}
              ELSE {}
    IN paint(data, px, style)

\* a saveCanvasState that pushes nothing
saveCanvasStateOmitted(history, data) == history

\* saveCanvasState: getImageData raises IndexSizeError on an empty canvas
saveCanvasState(history, data) ==
    IF width(data) = 0 THEN history ELSE Append(history, data)

\* a mask that compares the first channel only
maskPixelsFirstChannelOnly(originalPixels, currentPixels) ==
    [n \in 1..Len(currentPixels) |->
        LET i == 4 * ((n - 1) \div 4) IN
        IF originalPixels[i + 1] # currentPixels[i + 1] THEN "255"
        ELSE IF n - i = 4 THEN "255" ELSE "0"]

\* a mask whose unchanged pixels are transparent
maskPixelsTransparentOutside(originalPixels, currentPixels) ==
    [n \in 1..Len(currentPixels) |->
        LET i == 4 * ((n - 1) \div 4) IN
        IF \E c \in 1..4 : originalPixels[i + c] # currentPixels[i + c]
        THEN "255" ELSE "0"]

\* the mask saveMask computes from snapshot 0 and the surface (lines 640-659)
maskPixels(originalPixels, currentPixels) ==
    [n \in 1..Len(currentPixels) |->
        LET i == 4 * ((n - 1) \div 4)
            inside == i + 4 <= Len(originalPixels)
            hasChanged ==
                /\ inside
                /\ \/ originalPixels[i + 1] # currentPixels[i + 1]
                   \/ originalPixels[i + 2] # currentPixels[i + 2]
                   \/ originalPixels[i + 3] # currentPixels[i + 3]
                   \/ originalPixels[i + 4] # currentPixels[i + 4]
        IN IF ~inside THEN "0"
           ELSE IF hasChanged THEN "255"
           ELSE IF n - i = 4 THEN "255" ELSE "0"]

\* canvas.toDataURL(mimeType)
toDataURL(data, mimeType) == dataUrl(mimeType, data)

\* the pixels of the image a data URL encodes
decode(url) == second(split(url, ","))

\* a closeEditor that keeps the snapshots
closeEditorKeepingHistory ==
    /\ editorOpen' = FALSE
    /\ originalImage' = <<>>
    /\ canvasHistory' = canvasHistory
    /\ canvas' = paint(canvas, 1..width(canvas), Transparent)

\* closeEditor's effect on the editor's state
closeEditor ==
    /\ editorOpen' = FALSE
    /\ originalImage' = <<>>
    /\ canvasHistory' = <<>>
    /\ canvas' = paint(canvas, 1..width(canvas), Transparent)

\* openEditor: the mask button on the preview of the staged image
OpenEditor ==
    /\ stagedImage # <<>>
    /\ Len(imageLoads) < MaxLoads
    /\ originalImage' = <<stagedImage[1].data>>
    /\ originalLoaded' = FALSE
    /\ imageLoads' = Append(imageLoads, stagedImage[1].data)
    /\ UNCHANGED <<isDrawing, editorOpen, currentTool, canvasHistory, canvas, path,
                   fillStyle, activeColor, shapeStartX, inputVars, storeVars,
                   dialogVars, chatVars, asyncVars, harnessVars>>

\* originalImage.onload of the i-th Image object still loading (lines 604-612).
\* The handler reads the global originalImage: null after closeEditor (a
\* TypeError), this object, or a later object.  A later object whose own load
\* event has not fired may or may not have its pixels yet; without them its
\* naturalWidth is 0, the canvas is empty and getImageData raises.
ImageOnload(i) ==
    /\ i \in 1..Len(imageLoads)
    /\ imageLoads' = removeAt(imageLoads, i)
    /\ LET isLatest == originalImage # <<>> /\ ~originalLoaded /\ i = Len(imageLoads)
       IN IF originalImage = <<>>
          THEN UNCHANGED <<originalLoaded, editorOpen, canvasHistory, canvas, path,
                           fillStyle>>
          ELSE \E available \in (IF originalLoaded \/ isLatest THEN {TRUE}
                                  ELSE BOOLEAN) :
               LET pixels == IF available THEN decode(originalImage[1]) ELSE <<>>
               IN /\ originalLoaded' = (originalLoaded \/ isLatest)
                  /\ canvas' = pixels
                  /\ path' = <<>>
                  /\ fillStyle' = Black
                  /\ editorOpen' = TRUE
                  /\ canvasHistory' = saveCanvasState(<<>>, pixels)
    /\ UNCHANGED <<isDrawing, originalImage, currentTool, activeColor, shapeStartX,
                   inputVars, storeVars, dialogVars, chatVars, asyncVars,
                   harnessVars>>

\* the close button of the editor, or a click on its backdrop
CloseEditor ==
    /\ editorOpen
    /\ closeEditor
    /\ UNCHANGED <<isDrawing, originalLoaded, imageLoads, currentTool, path,
                   fillStyle, activeColor, shapeStartX, inputVars, storeVars,
                   dialogVars, chatVars, asyncVars, harnessVars>>

\* saveMask
SaveMask ==
    /\ editorOpen
    /\ IF stagedImage = <<>> \/ Len(canvasHistory) = 0
       THEN UNCHANGED <<stagedImage, editorOpen, originalImage, canvasHistory, canvas>>
       ELSE /\ stagedImage' =
                 <<[stagedImage[1] EXCEPT
                      !.maskData = toDataURL(maskPixels(canvasHistory[1], canvas),
                                             stagedImage[1].mimeType),
                      !.maskPreviewData = toDataURL(canvas, stagedImage[1].mimeType)]>>
            /\ closeEditor
    /\ UNCHANGED <<isDrawing, originalLoaded, imageLoads, currentTool, path,
                   fillStyle, activeColor, shapeStartX, promptInput, storeVars,
                   dialogVars, chatVars, asyncVars, harnessVars>>

\* handleUndo
HandleUndo ==
    /\ editorOpen
    /\ IF Len(canvasHistory) > 1
       THEN /\ canvasHistory' = SubSeq(canvasHistory, 1, Len(canvasHistory) - 1)
            /\ canvas' = canvasHistory[Len(canvasHistory) - 1]
       ELSE UNCHANGED <<canvasHistory, canvas>>
    /\ UNCHANGED <<isDrawing, originalImage, originalLoaded, imageLoads, editorOpen,
                   currentTool, path, fillStyle, activeColor, shapeStartX,
                   inputVars, storeVars, dialogVars, chatVars, asyncVars,
                   harnessVars>>

\* a tool button; the pointer has left the canvas, so no stroke is open
SelectTool(tool) ==
    /\ editorOpen /\ ~isDrawing
    /\ currentTool' = tool
    /\ UNCHANGED <<isDrawing, originalImage, originalLoaded, imageLoads, editorOpen,
                   canvasHistory, canvas, path, fillStyle, activeColor,
                   shapeStartX, inputVars, storeVars, dialogVars, chatVars,
                   asyncVars, harnessVars>>

\* a palette button: the color is selected and the tool becomes the brush
SelectColor(color) ==
    /\ editorOpen /\ ~isDrawing
    /\ activeColor' = color
    /\ currentTool' = "brush"
    /\ UNCHANGED <<isDrawing, originalImage, originalLoaded, imageLoads, editorOpen,
                   canvasHistory, canvas, path, fillStyle, shapeStartX,
                   inputVars, storeVars, dialogVars, chatVars, asyncVars,
                   harnessVars>>

\* startDraw: mousedown on the canvas at x
StartDraw(x) ==
    /\ editorOpen
    /\ Len(canvasHistory) < MaxHist
    /\ isDrawing' = TRUE
    /\ IF currentTool \in {"brush", "eraser"}
       THEN path' = <<x>> /\ UNCHANGED shapeStartX
       ELSE IF currentTool \in {"rectangle", "circle"}
       THEN shapeStartX' = x /\ UNCHANGED path
       ELSE UNCHANGED <<path, shapeStartX>>
    /\ UNCHANGED <<originalImage, originalLoaded, imageLoads, editorOpen,
                   currentTool, canvasHistory, canvas, fillStyle, activeColor,
                   inputVars, storeVars, dialogVars, chatVars, asyncVars,
                   harnessVars>>

\* draw: mousemove on the canvas at x
Draw(x) ==
    LET color == IF activeColor # <<>> THEN activeColor ELSE DefaultColor IN
    /\ editorOpen
    /\ IF ~isDrawing
       THEN UNCHANGED <<canvas, path, fillStyle>>
       ELSE /\ fillStyle' = color
            /\ IF currentTool = "brush"
               THEN /\ path' = Append(path, x)
                    /\ canvas' = paint(canvas, strokePixels(canvas, path'), color)
               ELSE IF currentTool = "eraser"
               THEN /\ path' = Append(path, x)
                    /\ canvas' = paint(canvas, strokePixels(canvas, path'),
                                       Transparent)
               ELSE IF currentTool \in {"rectangle", "circle"}
                       /\ Len(canvasHistory) > 0
               THEN /\ canvas' = drawShape(canvasHistory[Len(canvasHistory)],
                                           currentTool, shapeStartX, x, color)
                    /\ UNCHANGED path
               ELSE UNCHANGED <<canvas, path>>
    /\ UNCHANGED <<isDrawing, originalImage, originalLoaded, imageLoads, editorOpen,
                   currentTool, canvasHistory, activeColor, shapeStartX,
                   inputVars, storeVars, dialogVars, chatVars, asyncVars,
                   harnessVars>>

\* stopDraw: mouseup on the canvas at x, or mouseout to x outside it
StopDraw(x) ==
    /\ editorOpen
    /\ IF ~isDrawing
       THEN UNCHANGED <<isDrawing, canvas, canvasHistory>>
       ELSE /\ isDrawing' = FALSE
            /\ IF currentTool \in {"rectangle", "circle"}
               THEN IF Len(canvasHistory) = 0
                    THEN UNCHANGED <<canvas, canvasHistory>>
                    ELSE /\ canvas' = drawShape(canvasHistory[Len(canvasHistory)],
                                                currentTool, shapeStartX, x,
                                                fillStyle)
                         /\ canvasHistory' = saveCanvasState(canvasHistory, canvas')
               ELSE /\ UNCHANGED canvas
                    /\ canvasHistory' = saveCanvasState(canvasHistory, canvas)
    /\ UNCHANGED <<originalImage, originalLoaded, imageLoads, editorOpen,
                   currentTool, path, fillStyle, activeColor, shapeStartX,
                   inputVars, storeVars, dialogVars, chatVars, asyncVars,
                   harnessVars>>

(***************************************************************************)
(* The inputs the specifications draw from.                                *)
(***************************************************************************)
Png == <<"image/png">>
Jpeg == <<"image/jpeg">>
Ink == <<"10", "20", "30", "255">>

\* files the user can pick: their type and their decoded pixels
FileA == [type |-> Png, bytes |-> Ink \o Ink]
FileB == [type |-> Jpeg, bytes |-> Ink \o DefaultColor]

KeyA == <<"a">>
KeyB == <<"b">>

\* the strings over alphabet of length at most n
RECURSIVE StringsUpTo(_, _)
StringsUpTo(alphabet, n) ==
    IF n = 0 THEN {<<>>}
    ELSE LET shorter == StringsUpTo(alphabet, n - 1) IN
         shorter \cup {Append(s, c) : s \in shorter, c \in alphabet}

\* what a sequence of valid saves leaves in the store
entry(key, file) ==
    [key |-> key, value |-> [data |-> dataUrl(file.type, file.bytes),
                             mimeType |-> file.type]]

HarnessStores ==
    { <<>>, <<entry(KeyA, FileA)>>, <<entry(KeyB, FileB)>>,
      <<entry(KeyA, FileA), entry(KeyB, FileB)>>,
      <<entry(KeyB, FileB), entry(KeyA, FileA)>> }

\* what staging a file, and then saving a mask for it, leaves staged
HarnessStaged ==
    { <<>>,
      staged(dataUrl(FileB.type, FileB.bytes), FileB.type),
      <<[data |-> dataUrl(FileB.type, FileB.bytes), mimeType |-> FileB.type,
         maskData |-> toDataURL(maskPixels(FileB.bytes, Ink \o Ink), FileB.type),
         maskPreviewData |-> toDataURL(Ink \o Ink, FileB.type)]>> }

HarnessKeys == {<<>>, <<KeyA>>, <<KeyB>>, <<KeyA, KeyB>>, <<KeyB, KeyA>>}

(***************************************************************************)
(* SpecResolve: the resolver and the assembler applied to every prompt of  *)
(* at most MaxLen characters, store and staged image of the harness.       *)
(***************************************************************************)
InitResolve ==
    /\ references \in HarnessStores
    /\ stagedImage \in HarnessStaged
    /\ promptInput \in StringsUpTo({"@", "a", "b", " "}, MaxLen)
    /\ imageToSave = <<>>
    /\ saveModalSource = "null"
    /\ saveKeyPreview = <<>>
    /\ referenceKeyInput = <<>>
    /\ keyErrorMessage = <<>>
    /\ chat = showInitialTutorial(<<>>)
    /\ loading = FALSE
    /\ inflight = <<>>
    /\ readers = <<>>
    /\ isDrawing = FALSE
    /\ originalImage = <<>>
    /\ originalLoaded = FALSE
    /\ imageLoads = <<>>
    /\ editorOpen = FALSE
    /\ currentTool = "brush"
    /\ canvasHistory = <<>>
    /\ canvas = <<>>
    /\ path = <<>>
    /\ fillStyle = Black
    /\ activeColor = <<>>
    /\ shapeStartX = 0
    /\ resolveOut = <<>>
    /\ partsOut = <<>>
    /\ renameOut = <<>>
    /\ steps = 0

ApplyResolve ==
    /\ resolveOut = <<>> /\ partsOut = <<>>
    /\ resolveOut' = <<parsePromptForReferences(promptInput, references)>>
    /\ UNCHANGED <<partsOut, renameOut, inputVars, storeVars, dialogVars, chatVars, asyncVars,
                   editorVars>>

ApplyAssemble(keys) ==
    /\ resolveOut = <<>> /\ partsOut = <<>>
    /\ partsOut' = <<[keys |-> keys,
                      out |-> buildApiParts(promptInput, stagedImage, keys,
                                            references)]>>
    /\ UNCHANGED <<resolveOut, renameOut, inputVars, storeVars, dialogVars, chatVars, asyncVars,
                   editorVars>>

NextResolve ==
    /\ UNCHANGED steps
    /\ \/ ApplyResolve
       \/ \E keys \in HarnessKeys : ApplyAssemble(keys)

SpecResolve == InitResolve /\ [][NextResolve]_vars

(***************************************************************************)
(* SpecStore: the save-key dialog and the references dialog, from every    *)
(* store of the harness, with two files and keys that are valid, invalid,  *)
(* padded or empty.                                                        *)
(***************************************************************************)
\* the state of everything but the store, the staged image and the prompt
\* after initializeApp
Fresh ==
    /\ imageToSave = <<>>
    /\ saveModalSource = "null"
    /\ saveKeyPreview = <<>>
    /\ referenceKeyInput = <<>>
    /\ keyErrorMessage = <<>>
    /\ chat = showInitialTutorial(<<>>)
    /\ loading = FALSE
    /\ inflight = <<>>
    /\ readers = <<>>
    /\ isDrawing = FALSE
    /\ originalImage = <<>>
    /\ originalLoaded = FALSE
    /\ imageLoads = <<>>
    /\ editorOpen = FALSE
    /\ currentTool = "brush"
    /\ canvasHistory = <<>>
    /\ canvas = <<>>
    /\ path = <<>>
    /\ fillStyle = Black
    /\ activeColor = <<>>
    /\ shapeStartX = 0
    /\ resolveOut = <<>>
    /\ partsOut = <<>>
    /\ renameOut = <<>>
    /\ steps = 0

KeyC == <<"c">>
StoreFiles == {FileA}
StoreKeys == {KeyC, <<"b", " ">>, <<"a", "@">>, <<>>}

InitStore ==
    /\ references \in HarnessStores
    /\ stagedImage = <<>>
    /\ promptInput = <<>>
    /\ Fresh

NextStore ==
    \/ UNCHANGED steps /\ \E f \in StoreFiles : HandleFileSelect(f)
    \/ UNCHANGED steps /\ \E i \in 1..Len(readers) : ReaderOnload(i)
    \/ UNCHANGED steps /\ \E k \in StoreKeys : TypeKey(k)
    \/ UNCHANGED steps /\ HandleSaveKey
    \/ UNCHANGED steps /\ HandleCancelSave
    \/ UNCHANGED steps /\ UseOnce
    \/ UNCHANGED steps /\ RemoveImage
    \/ UNCHANGED steps /\ \E key \in keysOf(references) : UseReference(key)
    \/ UNCHANGED steps /\ \E key \in keysOf(references) : DeleteReference(key)
    \/ UNCHANGED steps /\ \E key \in keysOf(references), v \in StoreKeys :
                              HandleRename(key, v)

SpecStore == InitStore /\ [][NextStore]_vars

(***************************************************************************)
(* SpecRename: handleRename applied once to every store of the harness,    *)
(* for a row of any key and any value of its input.                        *)
(***************************************************************************)
ApplyRename(oldKey, value) ==
    /\ renameOut = <<>>
    /\ references' = handleRename(references, oldKey, value)
    /\ renameOut' = <<[oldKey |-> oldKey, value |-> value, before |-> references]>>
    /\ UNCHANGED <<resolveOut, partsOut, inputVars, dialogVars, chatVars, asyncVars,
                   editorVars>>

RenameValues == StoreKeys \cup {KeyA, KeyB, <<"@">>}

NextRename ==
    /\ UNCHANGED steps
    /\ \E oldKey \in {KeyA, KeyB, KeyC}, value \in RenameValues :
          ApplyRename(oldKey, value)

SpecRename == InitStore /\ [][NextRename]_vars

(***************************************************************************)
(* SpecEditor: mask-editing sessions, one at a time, on a staged image of  *)
(* one or two pixels, with or without an earlier mask, with every tool.    *)
(***************************************************************************)
Moss == <<"10", "90", "30", "255">>   \* differs from Ink in one channel only
EditorTools == {"brush", "eraser", "rectangle", "circle"}
EditorColors == {Moss}

\* the staged images sessions are opened on
EditorStaged == (HarnessStaged \ {<<>>}) \cup {staged(dataUrl(Png, Ink), Png)}

InitEditor ==
    /\ references = <<>>
    /\ stagedImage \in EditorStaged
    /\ promptInput = <<>>
    /\ Fresh

NextEditor ==
    \/ UNCHANGED steps /\ ~editorOpen /\ imageLoads = <<>>
                        /\ stagedImage \in EditorStaged /\ OpenEditor
    \/ UNCHANGED steps /\ \E i \in 1..Len(imageLoads) : ImageOnload(i)
    \/ UNCHANGED steps /\ CloseEditor
    \/ UNCHANGED steps /\ SaveMask
    \/ UNCHANGED steps /\ HandleUndo
    \/ UNCHANGED steps /\ \E t \in EditorTools : SelectTool(t)
    \/ UNCHANGED steps /\ \E c \in EditorColors : SelectColor(c)
    \/ UNCHANGED steps /\ \E x \in 0..width(canvas) : StartDraw(x)
    \/ UNCHANGED steps /\ Len(path) < MaxPath /\ \E x \in 0..width(canvas) : Draw(x)
    \/ UNCHANGED steps /\ \E x \in (-1)..(width(canvas) + 1) : StopDraw(x)

SpecEditor == InitEditor /\ [][NextEditor]_vars

(***************************************************************************)
(* Spec: the whole application, every handler, over small inputs.          *)
(***************************************************************************)
Dot == [type |-> Png, bytes |-> Ink]

\* how a call settles: a response with parts, a response without candidates, a
\* rejection with an Error, or a rejection with some other value
Answer(parts) == [kind |-> "response", parts |-> parts, message |-> <<>>]
Rejection(message) == [kind |-> "error", parts |-> <<>>, message |-> message]
NoCandidates == [kind |-> "noCandidates", parts |-> <<>>, message |-> <<>>]
Thrown == [kind |-> "thrown", parts |-> <<>>, message |-> <<>>]
Failures == {Rejection(<<"quota">>), NoCandidates, Thrown}

AppPrompts == {<<" ">>, <<"a">>, <<"@", "a">>, <<"@", "b", "@", "a">>,
               <<" ", "H", "e", "l", "P">>}
AppFiles == {Dot}
AppKeys == {KeyA, <<"a", " ">>, <<"@">>}
AppOutcomes == {Answer(<<inlinePart(DefaultColor, Png)>>)} \cup Failures
AppRenames == {KeyB, <<"@">>}
AppTools == {"brush", "rectangle"}
AppColors == {DefaultColor}

\* one more event is handled
Tick == steps < MaxSteps /\ steps' = steps + 1

Next ==
    \/ Tick /\ \E p \in AppPrompts : TypePrompt(p)
    \/ Tick /\ HandleFormSubmit
    \/ Tick /\ \E i \in 1..Len(inflight), o \in AppOutcomes : ModelCallSettles(i, o)
    \/ Tick /\ \E f \in AppFiles : HandleFileSelect(f)
    \/ Tick /\ \E i \in 1..Len(readers) : ReaderOnload(i)
    \/ Tick /\ \E url \in aiImageUrls : EditGeneratedImage(url)
    \/ Tick /\ RemoveImage
    \/ Tick /\ \E url \in aiImageUrls : SaveGeneratedImage(url)
    \/ Tick /\ \E key \in keysOf(references), start, end \in 0..Len(promptInput) :
                  InsertReferenceAtCursor(key, start, end)
    \/ Tick /\ \E k \in AppKeys : TypeKey(k)
    \/ Tick /\ HandleSaveKey
    \/ Tick /\ HandleCancelSave
    \/ Tick /\ UseOnce
    \/ Tick /\ \E key \in keysOf(references) : UseReference(key)
    \/ Tick /\ \E key \in keysOf(references) : DeleteReference(key)
    \/ Tick /\ \E key \in keysOf(references), v \in AppRenames : HandleRename(key, v)
    \/ Tick /\ OpenEditor
    \/ Tick /\ \E i \in 1..Len(imageLoads) : ImageOnload(i)
    \/ Tick /\ CloseEditor
    \/ Tick /\ SaveMask
    \/ Tick /\ HandleUndo
    \/ Tick /\ \E t \in AppTools : SelectTool(t)
    \/ Tick /\ \E c \in AppColors : SelectColor(c)
    \/ Tick /\ \E x \in 0..width(canvas) : StartDraw(x)
    \/ Tick /\ \E x \in 0..width(canvas) : Draw(x)
    \/ Tick /\ \E x \in (-1)..(width(canvas) + 1) : StopDraw(x)

Spec == Init /\ [][Next]_vars

(***************************************************************************)
(* The claims.                                                             *)
(***************************************************************************)
\* p is the payload of the data URL url: url is "data:<mime>;base64," and p
IsPayloadOf(p, url) ==
    \E m \in {Png, Jpeg} : url = <<"data", ":">> \o m \o <<";", "base64", ",">> \o p

\* C1: the result of parsePromptForReferences never lists a key both as
\* resolved (referencedKeys) and as missing (missingKeys).
C1_ResolvedAndMissingDisjoint ==
    resolveOut # <<>> =>
        \A i \in 1..Len(resolveOut[1].referencedKeys),
           j \in 1..Len(resolveOut[1].missingKeys) :
            resolveOut[1].referencedKeys[i] # resolveOut[1].missingKeys[j]

\* C2: the parts buildApiParts returns for keys that are all in the store are,
\* in this order: the text part (if there is a prompt or an image), the staged
\* image's original bytes, the mask right after it (if the image has one), then
\* one image part per key, in the order of the keys.
C2_PartsInFixedOrder ==
    (partsOut # <<>> /\ ~partsOut[1].out.threw) =>
        LET out == partsOut[1].out.parts
            keys == partsOut[1].keys
            t == IF promptInput # <<>> \/ stagedImage # <<>> THEN 1 ELSE 0
            m == IF stagedImage = <<>> THEN 0
                 ELSE IF stagedImage[1].maskData # <<>> THEN 2 ELSE 1
        IN /\ Len(out) = t + m + Len(keys)
           /\ t = 1 => out[1].kind = "text"
           /\ \A n \in (t + 1)..Len(out) : out[n].kind = "inlineData"
           /\ m >= 1 => /\ IsPayloadOf(out[t + 1].data, stagedImage[1].data)
                        /\ out[t + 1].mimeType = stagedImage[1].mimeType
           /\ m = 2 => IsPayloadOf(out[t + 2].data, stagedImage[1].maskData)
           /\ \A j \in 1..Len(keys) :
                \E n \in 1..Len(references) :
                    /\ references[n].key = keys[j]
                    /\ IsPayloadOf(out[t + m + j].data, references[n].value.data)
                    /\ out[t + m + j].mimeType = references[n].value.mimeType

\* C2's case: a prompt, a staged image with a mask and two keys were assembled
C2_Witness ==
    /\ partsOut # <<>>
    /\ ~partsOut[1].out.threw
    /\ promptInput # <<>>
    /\ stagedImage # <<>> /\ stagedImage[1].maskData # <<>>
    /\ Len(partsOut[1].keys) = 2
    /\ Len(partsOut[1].out.parts) = 5

\* the keys of the @-tokens of prompt: every maximal run of word characters
\* that follows an '@'
ReferencedIn(prompt) ==
    { SubSeq(prompt, i + 1, j) : <<i, j>> \in
        { ij \in (1..Len(prompt)) \X (1..Len(prompt)) :
            /\ ij[1] < ij[2]
            /\ prompt[ij[1]] = "@"
            /\ \A n \in (ij[1] + 1)..ij[2] : prompt[n] \in WordChars
            /\ ij[2] = Len(prompt) \/ prompt[ij[2] + 1] \notin WordChars } }

MissingIn(prompt, refs) ==
    { k \in ReferencedIn(prompt) : \A n \in 1..Len(refs) : refs[n].key # k }

\* text holds the characters of k, in a row
Contains(text, k) ==
    \E i \in 1..(Len(text) - Len(k) + 1) : SubSeq(text, i, i + Len(k) - 1) = k

\* s is blank: nothing but white space
Blank(s) == \A i \in 1..Len(s) : s[i] \in WhiteSpace

\* s is the word help in any letter case, with white space around it
IsHelp(s) ==
    \E i \in 1..Len(s) :
        /\ i + 3 <= Len(s)
        /\ \A n \in 1..(i - 1) : s[n] \in WhiteSpace
        /\ s[i] \in {"h", "H"} /\ s[i + 1] \in {"e", "E"}
        /\ s[i + 2] \in {"l", "L"} /\ s[i + 3] \in {"p", "P"}
        /\ \A n \in (i + 4)..Len(s) : s[n] \in WhiteSpace

\* this step appends exactly one message to the chat, and it is an AI message
OneAiMessageAppended ==
    /\ Len(chat') = Len(chat) + 1
    /\ SubSeq(chat', 1, Len(chat)) = chat
    /\ chat'[Len(chat')].sender = "ai"

\* this step is an accepted submit: it appends the user's message
SubmitAccepted ==
    /\ Len(chat') > Len(chat)
    /\ chat'[Len(chat) + 1].sender = "user"

NotFoundText == "Error: The following reference keys were not found: "
SorryText == "Sorry, an error occurred. "

\* C3: an accepted submit whose prompt references a key that is not in the
\* store issues no model call and appends, after the user's message, exactly
\* one AI error message, which names every missing key.
C3_MissingKeysAbortTheSubmit ==
    [][ (SubmitAccepted /\ MissingIn(chat'[Len(chat) + 1].text, references) # {})
        => /\ inflight' = inflight
           /\ Len(chat') = Len(chat) + 2
           /\ SubSeq(chat', 1, Len(chat)) = chat
           /\ chat'[Len(chat')].sender = "ai"
           /\ chat'[Len(chat')].text[1] = NotFoundText
           /\ \A k \in MissingIn(chat'[Len(chat) + 1].text, references) :
                 Contains(Tail(chat'[Len(chat')].text), k) ]_vars

\* C3's case: a prompt naming a stored key and a missing one was refused
C3_Witness ==
    /\ Len(chat) >= 3
    /\ chat[Len(chat) - 1].sender = "user"
    /\ ReferencedIn(chat[Len(chat) - 1].text) = {KeyA, KeyB}
    /\ chat[Len(chat)].text[1] = NotFoundText
    /\ has(references, KeyA) /\ ~has(references, KeyB)
    /\ inflight = <<>>

\* C4: at most one model call is outstanding, and while one is the input
\* controls are disabled.
C4_AtMostOneCallInFlight ==
    /\ Len(inflight) <= 1
    /\ inflight # <<>> => loading

\* C4's case: a call is in flight while the mask editor is open and a
\* reference is stored
C4_Witness ==
    /\ Len(inflight) = 1
    /\ editorOpen
    /\ references # <<>>

\* C5: the step in which a model call settles enables the input controls, and
\* they are enabled in every state in which no call is outstanding.
C5_ControlsEnabledWhenNoCall ==
    /\ [](inflight = <<>> => ~loading)
    /\ [][Len(inflight') < Len(inflight) => ~loading']_vars

\* C5's case: a call was answered and none is outstanding
C5_Witness ==
    /\ Len(chat) >= 3
    /\ chat[Len(chat) - 1].sender = "user"
    /\ chat[Len(chat)].sender = "ai"
    /\ chat[Len(chat)].images # <<>>
    /\ inflight = <<>>
    /\ ~loading

\* C6: when a model call fails, the step appends exactly one AI error message,
\* which carries the failure's description, leaves every earlier message in
\* place and enables the input controls.
C6_FailureAddsOneErrorMessage ==
    [][ \A i \in 1..Len(inflight), o \in Failures :
          ModelCallSettles(i, o)
          => /\ OneAiMessageAppended
             /\ chat'[Len(chat')].text[1] = SorryText
             /\ chat'[Len(chat')].images = <<>>
             /\ o.kind = "error" => Contains(chat'[Len(chat')].text, o.message)
             /\ ~loading' ]_vars

\* C6's case: a call has failed
C6_Witness ==
    /\ Len(chat) >= 3
    /\ chat[Len(chat) - 1].sender = "user"
    /\ chat[Len(chat)].text[1] = SorryText
    /\ inflight = <<>>
    /\ ~loading

\* C7: a submit whose prompt is help, in any letter case and with white space
\* around it, appends the help text as one AI message, no user message, and
\* issues no model call.
C7_HelpAddsOneAiMessage ==
    [][ (HandleFormSubmit /\ IsHelp(promptInput))
        => /\ OneAiMessageAppended
           /\ chat'[Len(chat')].text = HelpText
           /\ inflight' = inflight ]_vars

\* C7's case: help was submitted while a reference is stored
C7_Witness ==
    /\ chat[Len(chat)].text = HelpText
    /\ references # <<>>
    /\ inflight = <<>>

\* C8: a submit with a blank prompt and no staged image changes nothing: no
\* message, no model call, the controls stay enabled, and the prompt input, the
\* staged image and the store are as they were.
C8_BlankSubmitIsNoOp ==
    [][ (HandleFormSubmit /\ Blank(promptInput) /\ stagedImage = <<>>)
        => UNCHANGED <<chat, inflight, loading, stagedImage, promptInput,
                       references>> ]_vars

\* C8's case: white space was typed, nothing is staged, and submit is possible
C8_Witness ==
    /\ steps >= 2
    /\ promptInput = <<" ">>
    /\ stagedImage = <<>>
    /\ ~loading
    /\ Len(chat) = 1

\* k is a key of the key-format rule: one or more word characters
ValidKey(k) == k # <<>> /\ \A i \in 1..Len(k) : k[i] \in WordChars

\* the key a confirmed save would store under: the key input, trimmed
DialogKey == trim(referenceKeyInput)

AlreadyInUseText == "This key is already in use. Please choose another."
InvalidKeyText == "Invalid key. Use only letters, numbers, and underscores."

\* C9: a confirmed save whose key fails the key-format rule, or is already in
\* the store, leaves the store as it was (a taken key still maps to its
\* original image) and adds no message; unless the key is empty, the dialog
\* stays open on its image and shows an error.
C9_RejectedSaveLeavesStoreUnchanged ==
    [][ (HandleSaveKey /\ (~ValidKey(DialogKey) \/ has(references, DialogKey)))
        => /\ references' = references
           /\ get(references', DialogKey) = get(references, DialogKey)
           /\ chat' = chat
           /\ DialogKey # <<>>
                => /\ imageToSave' = imageToSave
                   /\ keyErrorMessage' \in {<<AlreadyInUseText>>, <<InvalidKeyText>>} ]_vars

\* C9's case: a save under a taken key was refused, the key still stored
C9_Witness ==
    /\ keyErrorMessage = <<AlreadyInUseText>>
    /\ imageToSave # <<>>
    /\ has(references, DialogKey)

\* C10: a confirmed save under a valid key that is not in the store maps the
\* key to the image the dialog was opened for, with its mime type; and from the
\* opening of the dialog to that save no event replaces the image the open
\* dialog is for, other than the user's opening it for another image.
C10_SaveStoresImageDialogWasOpenedFor ==
    [][ /\ (HandleSaveKey /\ ValidKey(DialogKey) /\ ~has(references, DialogKey))
            => get(references', DialogKey) = <<imageToSave[1]>>
        /\ (imageToSave # <<>> /\ imageToSave' # <<>> /\ imageToSave' # imageToSave)
            => \E url \in aiImageUrls : SaveGeneratedImage(url) ]_vars

\* v is a stored image: a data URL of its mime type with a payload
IsStoredImage(v) ==
    /\ v.mimeType \in {Png, Jpeg}
    /\ Len(v.data) > 6
    /\ SubSeq(v.data, 1, 6) = <<"data", ":">> \o v.mimeType \o <<";", "base64", ",">>

\* C11: every key of the store is one or more word characters, no key occurs
\* twice, and every key maps to a stored image.
C11_StoreKeysValidAndMapped ==
    \A i \in 1..Len(references) :
        /\ ValidKey(references[i].key)
        /\ IsStoredImage(references[i].value)
        /\ \A j \in 1..Len(references) : references[j].key = references[i].key => j = i

\* C11's case: a store of two entries after a save and a rename to c
C11_Witness ==
    /\ Len(references) = 2
    /\ has(references, KeyC)
    /\ Len(chat) >= 2

\* the rename the harness applied: its row's key, its new key, the store before
Renamed == renameOut # <<>>
RenameOld == renameOut[1].oldKey
RenameNew == trim(renameOut[1].value)
RenameBefore == renameOut[1].before

\* C12: after a rename of a stored key A to a valid key B that is not in the
\* store, B maps to the image A mapped to, A is not in the store, and every
\* other key maps to what it mapped to.
C12_RenameMovesTheEntry ==
    (Renamed /\ has(RenameBefore, RenameOld) /\ ValidKey(RenameNew)
       /\ ~has(RenameBefore, RenameNew))
    => /\ get(references, RenameNew) = get(RenameBefore, RenameOld)
       /\ ~has(references, RenameOld)
       /\ keysOf(references) = (keysOf(RenameBefore) \ {RenameOld}) \cup {RenameNew}
       /\ \A k \in keysOf(RenameBefore) \ {RenameOld} :
             get(references, k) = get(RenameBefore, k)

\* C12's case: a was renamed to c in a store that also holds b
C12_Witness ==
    /\ Renamed
    /\ RenameOld = KeyA /\ RenameNew = KeyC
    /\ has(RenameBefore, KeyA) /\ has(RenameBefore, KeyB)
    /\ has(references, KeyC)

\* C13: a rename of a stored key to a key that is invalid, empty, or in use by
\* another entry leaves the store exactly as it was.
C13_RejectedRenameLeavesStore ==
    (Renamed /\ has(RenameBefore, RenameOld)
       /\ (~ValidKey(RenameNew) \/ (has(RenameBefore, RenameNew) /\ RenameNew # RenameOld)))
    => references = RenameBefore

\* C13's case: a rename of a to the key b, which another entry uses
C13_Witness ==
    /\ Renamed
    /\ RenameOld = KeyA /\ RenameNew = KeyB
    /\ has(RenameBefore, KeyA) /\ has(RenameBefore, KeyB)
    /\ references = RenameBefore

C15_OpenSessionKeepsPristineSnapshot ==
    /\ [](editorOpen => Len(canvasHistory) >= 1)
    /\ [][ (HandleUndo /\ Len(canvasHistory) >= 1)
            => /\ Len(canvasHistory') >= 1
               /\ canvasHistory'[1] = canvasHistory[1]
               /\ Len(canvasHistory) = 1 => UNCHANGED <<canvasHistory, canvas>> ]_vars

\* the pixel at position p of a buffer of channels, and the channels a data
\* URL carries after its "data:<mime>;base64," header
PixelOf(data, p) == SubSeq(data, 4 * p - 3, 4 * p)
PayloadOf(url) == SubSeq(url, 7, Len(url))
OpaqueBlack == <<"0", "0", "0", "255">>
OpaqueWhite == <<"255", "255", "255", "255">>

\* this step is a save that attaches a mask
MaskSaved ==
    /\ SaveMask
    /\ stagedImage # <<>>
    /\ Len(canvasHistory) >= 1

\* C16: a save in a session whose history holds only the pristine snapshot, no
\* stroke being open, attaches a mask of as many pixels as the source image,
\* every one of them opaque black, and leaves the source as it was.
C16_UntouchedSessionSavesBlackMask ==
    [][ (MaskSaved /\ Len(canvasHistory) = 1 /\ ~isDrawing)
        => /\ stagedImage' # <<>>
           /\ stagedImage'[1].data = stagedImage[1].data
           /\ stagedImage'[1].mimeType = stagedImage[1].mimeType
           /\ Len(PayloadOf(stagedImage'[1].maskData))
                 = Len(PayloadOf(stagedImage[1].data))
           /\ \A p \in 1..(Len(PayloadOf(stagedImage[1].data)) \div 4) :
                 PixelOf(PayloadOf(stagedImage'[1].maskData), p) = OpaqueBlack ]_vars

\* C16's case: an all-black mask of two pixels was saved after a stroke was
\* drawn and undone
C16_Witness ==
    /\ ~editorOpen
    /\ stagedImage # <<>>
    /\ PayloadOf(stagedImage[1].maskData) = OpaqueBlack \o OpaqueBlack
    /\ fillStyle # Black

\* C17: only a save changes the staged image; a cancel leaves the staged image
\* (source, mask and mask preview) as it was, empties the history and closes
\* the editor.
C17_CancelLeavesStagedImage ==
    [][ /\ stagedImage' # stagedImage => MaskSaved
        /\ CloseEditor => /\ stagedImage' = stagedImage
                          /\ canvasHistory' = <<>>
                          /\ ~editorOpen' ]_vars

\* C17's case: the editor was cancelled after a stroke, on an image that keeps
\* its earlier mask
C17_Witness ==
    /\ ~editorOpen
    /\ canvasHistory = <<>>
    /\ canvas # <<>> /\ \A n \in 1..Len(canvas) : canvas[n] = "0"
    /\ fillStyle # Black
    /\ stagedImage \in HarnessStaged
    /\ stagedImage[1].maskData # <<>>

\* C19: the mask a save attaches has one pixel per pixel of the surface, opaque
\* white where a channel of the surface differs from snapshot 0 and opaque
\* black elsewhere.
C19_MaskIsTheDifference ==
    [][ MaskSaved
        => /\ Len(PayloadOf(stagedImage'[1].maskData)) = Len(canvas)
           /\ \A p \in 1..(Len(canvas) \div 4) :
                 PixelOf(PayloadOf(stagedImage'[1].maskData), p)
                   = IF PixelOf(canvas, p) # PixelOf(canvasHistory[1], p)
                     THEN OpaqueWhite ELSE OpaqueBlack ]_vars

\* C19's case: a mask whose first pixel is white and whose second is black,
\* its preview showing a pixel that differs from the source in one channel
C19_Witness ==
    /\ ~editorOpen
    /\ stagedImage # <<>>
    /\ PayloadOf(stagedImage[1].maskData) = OpaqueWhite \o OpaqueBlack
    /\ PixelOf(PayloadOf(stagedImage[1].maskPreviewData), 1) = Moss

\* C20: in a session that stays open, a step that ends a stroke (Drawing to
\* not Drawing) appends exactly one snapshot, the surface; an undo with more
\* than one snapshot removes the last; every other step, a pointer-up or
\* pointer-leave while not Drawing included, leaves the history as it was.
C20_OneSnapshotPerCompletedStroke ==
    [][ (editorOpen /\ editorOpen'
           /\ ~(\E i \in 1..Len(imageLoads) : ImageOnload(i)))
        => IF isDrawing /\ ~isDrawing'
           THEN canvasHistory' = Append(canvasHistory, canvas')
           ELSE IF HandleUndo /\ Len(canvasHistory) > 1
           THEN canvasHistory' = SubSeq(canvasHistory, 1, Len(canvasHistory) - 1)
           ELSE canvasHistory' = canvasHistory ]_vars

\* C20's case: one stroke was completed with the rectangle tool
C20_Witness ==
    /\ editorOpen
    /\ ~isDrawing
    /\ Len(canvasHistory) = 2
    /\ currentTool = "rectangle"
    /\ canvasHistory[2] # canvasHistory[1]

\* this step empties the staged-image slot
StagedImageEmptied == stagedImage # <<>> /\ stagedImage' = <<>>

\* the statement of C18 as it stands: the slot is emptied only by a submit
\* that sends the user's message or by the remove-image button.
C18_EmptiedOnlyBySendOrRemove ==
    [][ StagedImageEmptied => (SubmitAccepted \/ RemoveImage) ]_vars

\* C18: the staged-image slot holds at most one image, and it is emptied only
\* by a submit that sends the user's message (whether or not a request is
\* built), by a help submit, by the remove-image button, or by cancelling the
\* save-key dialog that an upload opened.
C18_EmptiedOnlyByResetInputArea ==
    [][ /\ Len(stagedImage') <= 1
        /\ StagedImageEmptied
            => \/ SubmitAccepted
               \/ RemoveImage
               \/ HandleFormSubmit /\ IsHelp(promptInput)
               \/ HandleCancelSave /\ saveModalSource = "upload" ]_vars

\* C18's case: an image was uploaded, help was typed and submitted, and the
\* slot is empty
C18_Witness ==
    /\ steps = 4
    /\ chat[Len(chat)].text = HelpText
    /\ saveKeyPreview # <<>>
    /\ stagedImage = <<>>

\* C21: for the keys callGeminiApi passes (keys of the prompt's @-tokens, all
\* in the store), the result of buildApiParts is empty exactly when the prompt
\* is empty and no image is staged; otherwise its first part is the only text
\* part, and its text is the prompt when the prompt is non-empty and the
\* default instruction 'Describe this image.' when only an image is staged.
C21_ExactlyOneLeadingTextPart ==
    (/\ partsOut # <<>>
     /\ ~partsOut[1].out.threw
     /\ \A i \in 1..Len(partsOut[1].keys) :
            partsOut[1].keys[i] \in ReferencedIn(promptInput)) =>
        LET out == partsOut[1].out.parts IN
        /\ (out = <<>>) <=> (promptInput = <<>> /\ stagedImage = <<>>)
        /\ out # <<>> =>
              /\ out[1].kind = "text"
              /\ out[1].text = IF promptInput # <<>> THEN promptInput
                               ELSE <<"Describe this image.">>
              /\ \A n \in 2..Len(out) : out[n].kind # "text"

\* C21's case: a staged image was assembled with an empty prompt
C21_Witness ==
    /\ partsOut # <<>>
    /\ promptInput = <<>>
    /\ stagedImage # <<>>
    /\ partsOut[1].keys = <<>>
    /\ Len(partsOut[1].out.parts) >= 2
    /\ partsOut[1].out.parts[1].text = <<"Describe this image.">>

\* the position of the '@' of the first @-token of prompt whose key is k
FirstAt(prompt, k) ==
    CHOOSE i \in 1..Len(prompt) :
        /\ \E j \in (i + 1)..Len(prompt) :
              /\ SubSeq(prompt, i + 1, j) = k
              /\ prompt[i] = "@"
              /\ \A n \in (i + 1)..j : prompt[n] \in WordChars
              /\ j = Len(prompt) \/ prompt[j + 1] \notin WordChars
        /\ \A i2 \in 1..(i - 1) :
              ~ \E j \in (i2 + 1)..Len(prompt) :
                   /\ SubSeq(prompt, i2 + 1, j) = k
                   /\ prompt[i2] = "@"
                   /\ \A n \in (i2 + 1)..j : prompt[n] \in WordChars
                   /\ j = Len(prompt) \/ prompt[j + 1] \notin WordChars

\* C23: a step that applies parsePromptForReferences reports as missing
\* exactly the keys of the prompt's @-tokens that are absent from the store,
\* each once, in the order of their first occurrence in the prompt, and it
\* changes neither the store nor any other state.
C23_MissingKeysExactOrderedPure ==
    [][ (resolveOut = <<>> /\ resolveOut' # <<>>) =>
          LET missing == resolveOut'[1].missingKeys IN
          /\ {missing[i] : i \in 1..Len(missing)} = MissingIn(promptInput, references)
          /\ \A i, j \in 1..Len(missing) :
                i < j => FirstAt(promptInput, missing[i]) < FirstAt(promptInput, missing[j])
          /\ UNCHANGED <<inputVars, storeVars, dialogVars, chatVars, asyncVars,
                         editorVars, partsOut, renameOut>> ]_vars

\* C23's case: a prompt naming b, then a, was resolved against an empty store
C23_Witness ==
    /\ resolveOut # <<>>
    /\ promptInput = <<"@", "b", "@", "a">>
    /\ references = <<>>
    /\ resolveOut[1].missingKeys = <<KeyB, KeyA>>

\* every pixel of the mask of the data URL url is opaque black
AllBlack(url) ==
    /\ Len(PayloadOf(url)) >= 4
    /\ \A p \in 1..(Len(PayloadOf(url)) \div 4) :
          PixelOf(PayloadOf(url), p) = OpaqueBlack

\* C22: a save on a surface equal to the pristine snapshot attaches a mask
\* (all black, not empty) to the staged image, and an accepted submit of a
\* staged image with a mask, all black included, whose prompt has no missing
\* key issues one request whose parts are the text part, the original image
\* part and the mask part right after it, as for any other mask.
C22_BlackMaskIsAttachedAndSent ==
    [][ /\ (MaskSaved /\ canvas = canvasHistory[1]) =>
              /\ stagedImage' # <<>>
              /\ stagedImage'[1].data = stagedImage[1].data
              /\ stagedImage'[1].maskData # <<>>
              /\ AllBlack(stagedImage'[1].maskData)
        /\ (/\ SubmitAccepted
            /\ stagedImage # <<>>
            /\ stagedImage[1].maskData # <<>>
            /\ MissingIn(chat'[Len(chat) + 1].text, references) = {}) =>
              /\ Len(inflight') = Len(inflight) + 1
              /\ LET parts == inflight'[Len(inflight')] IN
                 /\ Len(parts) >= 3
                 /\ parts[1].kind = "text"
                 /\ parts[2] = inlinePart(PayloadOf(stagedImage[1].data),
                                          stagedImage[1].mimeType)
                 /\ parts[3] = inlinePart(PayloadOf(stagedImage[1].maskData),
                                          stagedImage[1].mimeType) ]_vars

\* C22's case: an image whose saved mask is all black was submitted, and the
\* request in flight carries the image and then the black mask
C22_Witness ==
    /\ Len(inflight) = 1
    /\ Len(inflight[1]) = 3
    /\ inflight[1][2].data = Ink
    /\ inflight[1][3].data # <<>>
    /\ \A p \in 1..(Len(inflight[1][3].data) \div 4) :
          PixelOf(inflight[1][3].data, p) = OpaqueBlack
    /\ stagedImage = <<>>
    /\ chat[Len(chat)].sender = "user"

\* the number of parts the staged image image contributes to a request
ImagePartsOf(image) ==
    IF image = <<>> THEN 0 ELSE IF image[1].maskData # <<>> THEN 2 ELSE 1

\* C24: an accepted submit appends the user's message right after the old
\* chat and leaves the staged image and the prompt input empty; the request it
\* issues carries, after the text part, the image and the mask staged when it
\* was submitted, and nothing else but one part per referenced key. A request
\* in flight is changed by no later step, and the step that settles a call
\* leaves the staged image and the prompt input as they are.
C24_RequestCarriesWhatWasStaged ==
    [][ /\ SubmitAccepted =>
              /\ SubSeq(chat', 1, Len(chat)) = chat
              /\ stagedImage' = <<>>
              /\ promptInput' = <<>>
              /\ Len(inflight') > Len(inflight) =>
                    LET parts == inflight'[Len(inflight')]
                        n == ImagePartsOf(stagedImage)
                    IN /\ SubSeq(inflight', 1, Len(inflight)) = inflight
                       /\ Len(parts) = 1 + n + Cardinality(ReferencedIn(
                                                  chat'[Len(chat) + 1].text))
                       /\ parts[1].kind = "text"
                       /\ n >= 1 => parts[2] = inlinePart(PayloadOf(stagedImage[1].data),
                                                          stagedImage[1].mimeType)
                       /\ n = 2 => parts[3] = inlinePart(PayloadOf(stagedImage[1].maskData),
                                                         stagedImage[1].mimeType)
        /\ ~SubmitAccepted =>
              \/ inflight' = inflight
              \/ /\ \E i \in 1..Len(inflight) : inflight' = removeAt(inflight, i)
                 /\ stagedImage' = stagedImage
                 /\ promptInput' = promptInput ]_vars

\* C24's case: the request in flight carries the uploaded image that was
\* staged at the submit, and the generated image staged since is still staged
C24_Witness ==
    /\ Len(inflight) = 1
    /\ Len(inflight[1]) = 2
    /\ inflight[1][2].data = Ink
    /\ stagedImage # <<>>
    /\ stagedImage[1].data = dataUrl(Png, DefaultColor)

\* m is the AI message that ends a submit: not the tutorial, the help text
\* or the confirmation of a saved reference
IsSubmitOutcome(m) ==
    /\ m.sender = "ai"
    /\ m.text # TutorialText
    /\ m.text # HelpText
    /\ m.text[1] # "Image saved as reference with key: \"<strong>"

\* the user messages and the submit outcomes among the first n chat messages
UserMessages(n) == {i \in 1..n : chat[i].sender = "user"}
SubmitOutcomes(n) == {i \in 1..n : IsSubmitOutcome(chat[i])}

\* C27: the submits are the user messages of the chat, one each. Every submit
\* but the one whose call is still in flight has exactly one outcome message
\* (an answer, a missing-keys error or a failure error), and the outcome of
\* the k-th submit comes after its user message: every prefix of the chat
\* holds at most as many outcomes as user messages, and the whole chat as
\* many outcomes as user messages less the calls in flight.
C27_OneOutcomePerSubmit ==
    /\ \A n \in 0..Len(chat) :
          Cardinality(SubmitOutcomes(n)) <= Cardinality(UserMessages(n))
    /\ Cardinality(SubmitOutcomes(Len(chat))) + Len(inflight)
          = Cardinality(UserMessages(Len(chat)))

\* C27's case: two submits have settled, one with a missing-keys error and
\* one with an answer or failure of the model
C27_Witness ==
    /\ Len(chat) = 5
    /\ inflight = <<>>
    /\ chat[2].sender = "user" /\ chat[4].sender = "user"
    /\ \E i \in {3, 5} : chat[i].text[1] = NotFoundText
    /\ \E i \in {3, 5} : IsSubmitOutcome(chat[i]) /\ chat[i].text[1] # NotFoundText

\* C28: a submit never makes buildApiParts look up an absent key (the
\* TypeError that lookup raises is never reported), and when it issues a
\* request every key of the prompt is in the store and the parts after the
\* text and the staged image are, one per key, the stored images of those
\* keys; a step that changes the store leaves the requests in flight as they
\* were.
C28_ReferencePartsCarryStoredImages ==
    [][ /\ SubmitAccepted =>
              /\ chat'[Len(chat')].text # <<"An error occurred: ", "TypeError">>
              /\ Len(inflight') > Len(inflight) =>
                    LET parts == inflight'[Len(inflight')]
                        n == 1 + ImagePartsOf(stagedImage)
                        keys == ReferencedIn(chat'[Len(chat) + 1].text)
                    IN /\ \A k \in keys : has(references, k)
                       /\ Len(parts) = n + Cardinality(keys)
                       /\ \A k \in keys : \E j \in (n + 1)..Len(parts) :
                             parts[j] = inlinePart(
                                 PayloadOf(get(references, k)[1].data),
                                 get(references, k)[1].mimeType)
        /\ references' # references => inflight' = inflight ]_vars

\* C28's case: the request in flight carries the image stored under a, and
\* the store has since lost the key a
C28_Witness ==
    /\ Len(inflight) = 1
    /\ chat[Len(chat)].sender = "user"
    /\ chat[Len(chat)].text = <<"@", "a">>
    /\ inflight[1][Len(inflight[1])] = inlinePart(Ink, Png)
    /\ ~has(references, KeyA)

\* C25: whenever the editor is open and no stroke is in progress, the undo
\* history is not empty and the surface equals its latest snapshot, pixel for
\* pixel.
C25_SurfaceEqualsLatestSnapshot ==
    (editorOpen /\ ~isDrawing) =>
        /\ canvasHistory # <<>>
        /\ canvas = canvasHistory[Len(canvasHistory)]

\* C26: whenever a save attaches a mask and a preview to the staged image,
\* the pristine snapshot of the session they were computed in is the decoded
\* source of that staged image.
C26_MaskComesFromStagedImage ==
    [][ MaskSaved => canvasHistory[1] = decode(stagedImage[1].data) ]_vars

====
